---- MODULE Spec2Model ----
(***************************************************************************)
(* A model of ImageWrap (src/index.js): a wrapper around a flat RGBA byte  *)
(* array with coordinate-addressed channel and packed-colour access and a  *)
(* ring-sampling gradient search.                                          *)
(*                                                                         *)
(* JavaScript values are tagged tuples, so that a number, undefined, NaN   *)
(* and a thrown error can be told apart:                                   *)
(*   <<"num", n>>  <<"undefined">>  <<"null">>  <<"NaN">>                  *)
(*   <<"throw", name, message>>                                            *)
(* A packed colour passed IN is an unsigned 32-bit number kept as          *)
(*   <<"num32", hi, lo>>  =  hi * 2^24 + lo,  hi in 0..255, lo in 0..2^24-1 *)
(* because 0x80000000..0xFFFFFFFF does not fit TLC's 32-bit integers.     *)
(* Every number the code RETURNS fits and is a plain <<"num", n>>.         *)
(*                                                                         *)
(* The identifiers Image, Canvas, UInt8ClampedArray and ImageData that the *)
(* constructor tests with instanceof are taken to be bound by the host.    *)
(***************************************************************************)
EXTENDS Integers, Sequences, FiniteSets, TLC

\* ---------------------------------------------------------------- bounds
\* Buffers are up to MaxW x MaxH pixels; MaxOps calls follow the constructor.
MaxW == 2
MaxH == 2
MaxOps == 1

\* ------------------------------------------------------------- JS values
Undefined == <<"undefined">>
Null == <<"null">>
NaN == <<"NaN">>
Num(n) == <<"num", n>>
U32(hi, lo) == <<"num32", hi, lo>>
Throw(name, msg) == <<"throw", name, msg>>
NoError == <<"ok">>
Unbound == <<"unbound">>
IsNum(v) == v[1] = "num"

\* Number.MAX_SAFE_INTEGER is 2^53-1; the model keeps the largest integer TLC
\* holds. Both exceed every divergence (at most 3*255).
MAX_SAFE_INTEGER == 2147483647

\* x >> k & 0xFF on an unsigned 32-bit colour: ToInt32 keeps the bit pattern.
Byte3(c) == c[2] % 256
Byte2(c) == (c[3] \div 65536) % 256
Byte1(c) == (c[3] \div 256) % 256
Byte0(c) == c[3] % 256

\* v << k for v read from the array: ToInt32(undefined) is 0, and a shift by
\* 24 lands in the sign bit of the 32-bit result.
ToInt32(v) == IF IsNum(v) THEN v[2] ELSE 0
Shl8(v) == ToInt32(v) * 256
Shl16(v) == ToInt32(v) * 65536
Shl24(v) == (IF ToInt32(v) >= 128 THEN ToInt32(v) - 256 ELSE ToInt32(v)) * 16777216

\* a + b and a - b and Math.abs on numbers; undefined and NaN give NaN.
Add(a, b) == IF IsNum(a) /\ IsNum(b) THEN Num(a[2] + b[2]) ELSE NaN
Sub(a, b) == IF IsNum(a) /\ IsNum(b) THEN Num(a[2] - b[2]) ELSE NaN
Abs(a) == IF IsNum(a) THEN Num(IF a[2] < 0 THEN 0 - a[2] ELSE a[2]) ELSE NaN

\* Uint8ClampedArray: a store clamps to 0..255, a store outside the array is
\* ignored, a read outside the array is undefined. Index i is 0-based.
Clamp(n) == IF n < 0 THEN 0 ELSE IF n > 255 THEN 255 ELSE n
At(d, i) == IF i >= 0 /\ i < Len(d) THEN Num(d[i + 1]) ELSE Undefined
Put(d, i, n) == IF i >= 0 /\ i < Len(d) THEN [d EXCEPT ![i + 1] = Clamp(n)] ELSE d

\* 4*( y*this._width + x )
Index(w, x, y) == 4 * (y * w + x)

\* ------------------------------------------------- packed colour access
\* get(x,y): ( d[ind] << 16 ) + ( d[ind+1] << 8 ) + d[ind+2]
get(d, w, x, y) ==
    LET ind == Index(w, x, y)
    IN  Add(Num(Shl16(At(d, ind)) + Shl8(At(d, ind + 1))), At(d, ind + 2))

\* get32(x,y): ( d[ind+3] << 24 ) + ( d[ind] << 16 ) + ( d[ind+1] << 8 ) + d[ind+2]
get32(d, w, x, y) ==
    LET ind == Index(w, x, y)
    IN  Add(Num(Shl24(At(d, ind + 3)) + Shl16(At(d, ind)) + Shl8(At(d, ind + 1))),
            At(d, ind + 2))

\* A channel-order slip: blue and red exchanged on the write.
set_swapped(d, w, x, y, color) ==
    LET ind == Index(w, x, y)
    IN  Put(Put(Put(d, ind, Byte0(color)), ind + 1, Byte1(color)), ind + 2, Byte2(color))

\* A copy-paste slip: the RGB write also stores the alpha byte, as set32 does.
set_alpha(d, w, x, y, color) ==
    LET ind == Index(w, x, y)
    IN  Put(Put(Put(Put(d, ind, Byte2(color)), ind + 1, Byte1(color)),
                ind + 2, Byte0(color)), ind + 3, Byte3(color))

\* set(x,y,color): the array after the three stores.
set(d, w, x, y, color) ==
    LET ind == Index(w, x, y)
    IN  Put(Put(Put(d, ind, Byte2(color)), ind + 1, Byte1(color)), ind + 2, Byte0(color))

\* set32(x,y,color): the array after the four stores.
set32(d, w, x, y, color) ==
    LET ind == Index(w, x, y)
    IN  Put(Put(Put(Put(d, ind, Byte2(color)), ind + 1, Byte1(color)),
                ind + 2, Byte0(color)), ind + 3, Byte3(color))

\* parts(x,y) and parts32(x,y): objects of raw array reads.
parts(d, w, x, y) ==
    LET ind == Index(w, x, y)
    IN  <<"rgb", At(d, ind), At(d, ind + 1), At(d, ind + 2)>>

parts32(d, w, x, y) ==
    LET ind == Index(w, x, y)
    IN  <<"rgba", At(d, ind), At(d, ind + 1), At(d, ind + 2), At(d, ind + 3)>>

\* ------------------------------------------------ single-channel access
\* red(x,y) is `return this._data[i] = r` with r a free identifier: a
\* ReferenceError when the host binds no global r; otherwise the store of r
\* into the red byte, and r as the value. Outcome: <<value, array>>.
red(d, w, x, y, globalR) ==
    IF globalR = Unbound
    THEN <<Throw("ReferenceError", "r is not defined"), d>>
    ELSE <<globalR, Put(d, Index(w, x, y), globalR[2])>>

green(d, w, x, y) == At(d, Index(w, x, y) + 1)
blue(d, w, x, y) == At(d, Index(w, x, y) + 2)
alpha(d, w, x, y) == At(d, Index(w, x, y) + 3)

setRed(d, w, x, y, r) == Put(d, Index(w, x, y), r)
setGreen(d, w, x, y, g) == Put(d, Index(w, x, y) + 1, g)
setBlue(d, w, x, y, b) == Put(d, Index(w, x, y) + 2, b)
setAlpha(d, w, x, y, a) == Put(d, Index(w, x, y) + 3, a)

\* ------------------------------------------------------------ differences
\* absDiff and diff begin `let ind = 4( y*this._width+x)`: a call of the
\* number 4, which throws a TypeError before anything is read.
absDiff(d, w, x, y, color) == Throw("TypeError", "4 is not a function")
diff(d, w, x, y, color) == Throw("TypeError", "4 is not a function")

\* -------------------------------------------------------- gradient search
\* The loop `for( theta = 2*PI; theta > 0; theta -= 2*PI/tests )`. The model
\* takes tests in {1, 2, 4}: the doubles 2*PI - k*(2*PI/tests) are then exact,
\* the loop runs exactly `tests` times and every sample lies on an axis, so a
\* direction is kept as a quarter-turn count q (theta = q * PI/2) with integer
\* cosine and sine. Math.cos and Math.sin return these to within 2.5e-16
\* (Math.sin(2*PI) is -2.4e-16, not 0), which changes no bounds test below
\* because the code takes Math.abs of the offset before it adds it.
Quarter(tests, k) == 4 - k * (4 \div tests)
Cos4(q) == CASE q % 4 = 0 -> 1 [] q % 4 = 2 -> 0 - 1 [] OTHER -> 0
Sin4(q) == CASE q % 4 = 1 -> 1 [] q % 4 = 3 -> 0 - 1 [] OTHER -> 0
AbsInt(n) == IF n < 0 THEN 0 - n ELSE n

\* r, g, b of the reference: the pixel at (x,y) when color is null, else the
\* three low bytes of color.
GradRef(d, w, x, y, color) ==
    LET ind == Index(w, x, y)
    IN  IF color = Null
        THEN <<At(d, ind), At(d, ind + 1), At(d, ind + 2)>>
        ELSE <<Num(Byte2(color)), Num(Byte1(color)), Num(Byte0(color))>>

\* del = |r - data[ind]| + |g - data[ind+1]| + |b - data[ind+2]| with
\* ind = 4*( y*this._width + x ): the index of the CENTRE, as the code has it.
GradDel(d, w, x, y, ref) ==
    LET ind == Index(w, x, y)
    IN  Add(Add(Abs(Sub(ref[1], At(d, ind))), Abs(Sub(ref[2], At(d, ind + 1)))),
            Abs(Sub(ref[3], At(d, ind + 2))))

\* tx = x + Math.abs( radius*dx ), ty = y + Math.abs( radius*dy ), and the two
\* `continue` tests.
GradSkips(w, h, x, y, radius, q) ==
    LET tx == x + AbsInt(radius * Cos4(q))
        ty == y + AbsInt(radius * Sin4(q))
    IN  tx < 0 \/ tx >= w \/ ty < 0 \/ ty >= h

\* One pass of minGrad's loop body on acc = <<minDel, minDx, minDy>>.
\* A NaN del compares false.
minGradStep(acc, d, w, h, x, y, ref, radius, q) ==
    LET del == GradDel(d, w, x, y, ref)
    IN  IF GradSkips(w, h, x, y, radius, q) THEN acc
        ELSE IF IsNum(del) /\ del[2] < acc[1]
             THEN <<del[2], Num(Cos4(q)), Num(Sin4(q))>>
             ELSE acc

\* One pass of maxGrad's loop body on acc = <<maxDel, maxDx, maxDy>>.
maxGradStep(acc, d, w, h, x, y, ref, radius, q) ==
    LET del == GradDel(d, w, x, y, ref)
    IN  IF GradSkips(w, h, x, y, radius, q) THEN acc
        ELSE IF IsNum(del) /\ del[2] > acc[1]
             THEN <<del[2], Num(Cos4(q)), Num(Sin4(q))>>
             ELSE acc

\* minGrad(x, y, color, radius, tests): { dx:minDx, dy:minDy }.
minGrad(d, w, h, x, y, color, radius, tests) ==
    LET ref == GradRef(d, w, x, y, color)
        RECURSIVE loop(_, _)
        loop(k, acc) ==
            IF k = tests THEN acc
            ELSE loop(k + 1, minGradStep(acc, d, w, h, x, y, ref, radius, Quarter(tests, k)))
        end == loop(0, <<MAX_SAFE_INTEGER, Undefined, Undefined>>)
    IN  <<"dir", end[2], end[3]>>

\* maxGrad(x, y, color, radius, tests): { dx:maxDx, dy:maxDy }.
maxGrad(d, w, h, x, y, color, radius, tests) ==
    LET ref == GradRef(d, w, x, y, color)
        RECURSIVE loop(_, _)
        loop(k, acc) ==
            IF k = tests THEN acc
            ELSE loop(k + 1, maxGradStep(acc, d, w, h, x, y, ref, radius, Quarter(tests, k)))
        end == loop(0, <<0 - 1, Undefined, Undefined>>)
    IN  <<"dir", end[2], end[3]>>

\* ------------------------------------------------------------ construction
\* The fields the constructor and fromData assign; all unset in a new object.
\* _imageData is the ImageData object, kept as its width and height (its
\* bytes are the very array held in _data).
NewObject ==
    [imageData |-> Undefined, rect |-> Undefined, width |-> Undefined,
     height |-> Undefined, data |-> Undefined]

\* A rect argument is null or <<"rect", width, height>>, where 0 stands for a
\* missing (falsy) member.
Rect(rw, rh) == <<"rect", rw, rh>>

\* new ImageData( array, sw [, sh] ) of the host: the array's length must be a
\* non-zero multiple of 4*sw, and sh, when given, must be the row count.
NewImageData(bytes, sw, sh) ==
    IF sw <= 0 \/ (IsNum(sh) /\ sh[2] <= 0)
    THEN Throw("IndexSizeError", "zero width or height")
    ELSE IF Len(bytes) = 0 \/ Len(bytes) % (4 * sw) # 0
    THEN Throw("InvalidStateError", "length is not a multiple of 4*width")
    ELSE IF IsNum(sh) /\ sh[2] # Len(bytes) \div (4 * sw)
    THEN Throw("IndexSizeError", "length is not 4*width*height")
    ELSE <<"ImageData", sw, Len(bytes) \div (4 * sw), bytes>>

\* fromData( source, rect ): the five assignments.
fromData(obj, imgData, r) ==
    [imageData |-> <<"ImageData", imgData[2], imgData[3]>>,
     rect |-> r,
     width |-> Num(imgData[2]),
     height |-> Num(imgData[3]),
     data |-> <<"array", imgData[4]>>]

\* A slip: the size test of the else branch is dropped, so a rect with neither
\* member reaches the ImageData constructor with a width that is not a number.
fromArray_unchecked(obj, bytes, r) ==
    IF r = Null THEN <<Throw("Error", "Size information required"), obj>>
    ELSE LET img == IF r[2] # 0
                    THEN NewImageData(bytes, r[2], IF r[3] # 0 THEN Num(r[3]) ELSE Undefined)
                    ELSE IF r[3] = 0 THEN NewImageData(bytes, 0, Num(0))
                    ELSE NewImageData(bytes, (Len(bytes) \div 4) \div r[3], Num(r[3]))
         IN  IF img[1] = "throw" THEN <<img, obj>>
             ELSE <<NoError, fromData(obj, img, Undefined)>>

\* fromArray( source, rect ). Outcome: <<error, object>>. fromData is called
\* with one argument, so the rect field becomes undefined.
fromArray(obj, bytes, r) ==
    IF r = Null THEN <<Throw("Error", "Size information required"), obj>>
    ELSE IF r[2] = 0 /\ r[3] = 0
    THEN <<Throw("Error", "Size information required"), obj>>
    ELSE LET img == IF r[2] # 0
                    THEN NewImageData(bytes, r[2], IF r[3] # 0 THEN Num(r[3]) ELSE Undefined)
                    ELSE NewImageData(bytes, (Len(bytes) \div 4) \div r[3], Num(r[3]))
         IN  IF img[1] = "throw" THEN <<img, obj>>
             ELSE <<NoError, fromData(obj, img, Undefined)>>

\* fromCanvas( source, rect ) reads the free identifier `canvas`, not its
\* parameter: a ReferenceError unless the host binds a global of that name,
\* whose pixels (globalCanvas[2]) then fill an ImageData of the asked size.
fromCanvas(obj, src, r, globalCanvas) ==
    IF globalCanvas = Unbound
    THEN <<Throw("ReferenceError", "canvas is not defined"), obj>>
    ELSE IF r # Null
    THEN LET sw == IF r[2] # 0 THEN r[2] ELSE src[2]
             sh == IF r[3] # 0 THEN r[3] ELSE src[3]
         IN  <<NoError, fromData(obj, <<"ImageData", sw, sh, SubSeq(globalCanvas[2], 1, 4 * sw * sh)>>, r)>>
    ELSE <<NoError, fromData(obj, <<"ImageData", src[2], src[3],
                                    SubSeq(globalCanvas[2], 1, 4 * src[2] * src[3])>>, Undefined)>>

\* fromImage( source, rect ): ctx.drawImage( source ) has one argument, which
\* the host's drawImage (3, 5 or 9 arguments) rejects with a TypeError.
fromImage(obj, src, r) ==
    <<Throw("TypeError", "drawImage: 1 argument"), obj>>

\* constructor( source, rect=null ): the instanceof chain.
constructor(src, r, globalCanvas) ==
    CASE src[1] = "Image" -> fromImage(NewObject, src, r)
      [] src[1] = "Canvas" -> fromCanvas(NewObject, src, r, globalCanvas)
      [] src[1] = "Array" -> fromArray(NewObject, src[2], r)
      [] src[1] = "ImageData" -> <<NoError, fromData(NewObject, src, r)>>
      [] OTHER -> <<Throw("Error", "Unknown Image Source"), NewObject>>

\* ------------------------------------------------------------ the machine
VARIABLES
    status,     \* "new" before the constructor runs, then "ready" or "failed"
    imageData,  \* this._imageData
    rect,       \* this._rect
    width,      \* this._width
    height,     \* this._height
    data,       \* this._data: <<"array", bytes>>
    source,     \* this._source
    call,       \* the last call: [op, args, ret]
    nops        \* calls made on the constructed wrapper

vars == <<status, imageData, rect, width, height, data, source, call, nops>>

\* Inputs.
TestCounts == {2, 4}
ChannelArgs == {128, 300}
ColorArgs == {U32(1, 98559), U32(200, 16777215)}
GradColorArgs == {Null, U32(0, 98559)}
DiffColorArgs == {U32(0, 98559)}
Radii == {1, 2}
GlobalRs == {Unbound, Num(77)}
\* Contents of n pixels: "flat" is one colour throughout, "ramp" gives every
\* byte its own value (byte j, 0-based, holds 10 + j).
Pixels(p, n) == [j \in 1..(4 * n) |-> IF p = "flat" THEN 200 ELSE 9 + j]
RectArgs ==
    {Null} \cup {Rect(rw, rh) : rw \in 0..MaxW, rh \in 0..MaxH}
StoredRectArgs == {Null, Rect(1, 0)}
SourceArgs ==
    {<<"Image">>, <<"Other">>}
    \cup {<<"Canvas", cw, ch>> : cw \in 1..MaxW, ch \in 1..MaxH}
    \cup {<<"Array", Pixels("ramp", n)>> : n \in 1..(MaxW * MaxH)}
    \cup {<<"ImageData", iw, ih, Pixels("ramp", iw * ih)>> : iw \in 1..MaxW, ih \in 1..MaxH}
GlobalCanvases == {Unbound, <<"Canvas", Pixels("flat", MaxW * MaxH)>>}

Init ==
    /\ status = "new"
    /\ imageData = Undefined
    /\ rect = Undefined
    /\ width = Undefined
    /\ height = Undefined
    /\ data = Undefined
    /\ source = Undefined
    /\ call = [op |-> "none", args |-> <<>>, ret |-> Undefined]
    /\ nops = 0

\* new ImageWrap( source, rect ): a throw leaves no object behind.
Construct ==
    /\ status = "new"
    /\ \E src \in SourceArgs, gc \in GlobalCanvases :
       \E r \in IF src[1] = "Array" THEN RectArgs ELSE StoredRectArgs :
         LET out == constructor(src, r, gc)
         IN  /\ status' = IF out[1] = NoError THEN "ready" ELSE "failed"
             /\ imageData' = out[2].imageData
             /\ rect' = out[2].rect
             /\ width' = out[2].width
             /\ height' = out[2].height
             /\ data' = out[2].data
             /\ call' = [op |-> "new", args |-> <<src, r>>, ret |-> out[1]]
    /\ UNCHANGED <<source, nops>>

\* The coordinates the accessors are specified for: [0,width) x [0,height).
Coords == {<<x, y>> : x \in 0..(width[2] - 1), y \in 0..(height[2] - 1)}

\* A method call on the constructed wrapper that leaves the array as d.
Method(op, args, ret, d) ==
    /\ status = "ready"
    /\ nops < MaxOps
    /\ nops' = nops + 1
    /\ call' = [op |-> op, args |-> args, ret |-> ret]
    /\ data' = <<"array", d>>
    /\ UNCHANGED <<status, imageData, rect, width, height, source>>

DoGet ==
    /\ status = "ready"
    /\ \E c \in Coords :
         Method("get", c, get(data[2], width[2], c[1], c[2]), data[2])

DoGet32 ==
    /\ status = "ready"
    /\ \E c \in Coords :
         Method("get32", c, get32(data[2], width[2], c[1], c[2]), data[2])

DoSet ==
    /\ status = "ready"
    /\ \E c \in Coords, color \in ColorArgs :
         Method("set", <<c[1], c[2], color>>, Undefined,
                set(data[2], width[2], c[1], c[2], color))

DoSet32 ==
    /\ status = "ready"
    /\ \E c \in Coords, color \in ColorArgs :
         Method("set32", <<c[1], c[2], color>>, Undefined,
                set32(data[2], width[2], c[1], c[2], color))

DoParts ==
    /\ status = "ready"
    /\ \E c \in Coords :
         Method("parts", c, parts(data[2], width[2], c[1], c[2]), data[2])

DoParts32 ==
    /\ status = "ready"
    /\ \E c \in Coords :
         Method("parts32", c, parts32(data[2], width[2], c[1], c[2]), data[2])

\* red(x,y) stores before it returns; a throw stores nothing.
DoRed ==
    /\ status = "ready"
    /\ \E c \in Coords, gr \in GlobalRs :
         LET out == red(data[2], width[2], c[1], c[2], gr)
         IN  Method("red", c, out[1], out[2])

DoGreen ==
    /\ status = "ready"
    /\ \E c \in Coords :
         Method("green", c, green(data[2], width[2], c[1], c[2]), data[2])

DoBlue ==
    /\ status = "ready"
    /\ \E c \in Coords :
         Method("blue", c, blue(data[2], width[2], c[1], c[2]), data[2])

DoAlpha ==
    /\ status = "ready"
    /\ \E c \in Coords :
         Method("alpha", c, alpha(data[2], width[2], c[1], c[2]), data[2])

DoSetRed ==
    /\ status = "ready"
    /\ \E c \in Coords, v \in ChannelArgs :
         Method("setRed", <<c[1], c[2], v>>, Undefined,
                setRed(data[2], width[2], c[1], c[2], v))

DoSetGreen ==
    /\ status = "ready"
    /\ \E c \in Coords, v \in ChannelArgs :
         Method("setGreen", <<c[1], c[2], v>>, Undefined,
                setGreen(data[2], width[2], c[1], c[2], v))

DoSetBlue ==
    /\ status = "ready"
    /\ \E c \in Coords, v \in ChannelArgs :
         Method("setBlue", <<c[1], c[2], v>>, Undefined,
                setBlue(data[2], width[2], c[1], c[2], v))

DoSetAlpha ==
    /\ status = "ready"
    /\ \E c \in Coords, v \in ChannelArgs :
         Method("setAlpha", <<c[1], c[2], v>>, Undefined,
                setAlpha(data[2], width[2], c[1], c[2], v))

DoAbsDiff ==
    /\ status = "ready"
    /\ \E c \in Coords, color \in DiffColorArgs :
         Method("absDiff", <<c[1], c[2], color>>,
                absDiff(data[2], width[2], c[1], c[2], color), data[2])

DoDiff ==
    /\ status = "ready"
    /\ \E c \in Coords, color \in DiffColorArgs :
         Method("diff", <<c[1], c[2], color>>,
                diff(data[2], width[2], c[1], c[2], color), data[2])

\* A slip: the sampled value is stored back into the centre pixel.
DoMinGrad_writes ==
    /\ status = "ready"
    /\ \E c \in Coords, color \in GradColorArgs, radius \in Radii, tests \in TestCounts :
         Method("minGrad", <<c[1], c[2], color, radius, tests>>,
                minGrad(data[2], width[2], height[2], c[1], c[2], color, radius, tests),
                Put(data[2], Index(width[2], c[1], c[2]), 0))

DoMinGrad ==
    /\ status = "ready"
    /\ \E c \in Coords, color \in GradColorArgs, radius \in Radii, tests \in TestCounts :
         Method("minGrad", <<c[1], c[2], color, radius, tests>>,
                minGrad(data[2], width[2], height[2], c[1], c[2], color, radius, tests),
                data[2])

DoMaxGrad ==
    /\ status = "ready"
    /\ \E c \in Coords, color \in GradColorArgs, radius \in Radii, tests \in TestCounts :
         Method("maxGrad", <<c[1], c[2], color, radius, tests>>,
                maxGrad(data[2], width[2], height[2], c[1], c[2], color, radius, tests),
                data[2])

\* The property setters: set width(v), set height(v), set rect(v), set source(v).
Setter(op, v) ==
    /\ status = "ready"
    /\ nops < MaxOps
    /\ nops' = nops + 1
    /\ call' = [op |-> op, args |-> <<v>>, ret |-> Undefined]

SetWidth ==
    /\ \E v \in 1..(MaxW + 1) : Setter("width=", Num(v)) /\ width' = Num(v)
    /\ UNCHANGED <<status, imageData, rect, height, data, source>>

SetHeight ==
    /\ \E v \in 1..(MaxH + 1) : Setter("height=", Num(v)) /\ height' = Num(v)
    /\ UNCHANGED <<status, imageData, rect, width, data, source>>

SetRect ==
    /\ \E v \in {Rect(1, 1)} : Setter("rect=", v) /\ rect' = v
    /\ UNCHANGED <<status, imageData, width, height, data, source>>

SetSource ==
    /\ \E v \in {<<"Canvas", 1, 1>>} : Setter("source=", v) /\ source' = v
    /\ UNCHANGED <<status, imageData, rect, width, height, data>>

Next ==
    \/ Construct
    \/ DoGet
    \/ DoGet32
    \/ DoSet
    \/ DoSet32
    \/ DoParts
    \/ DoParts32
    \/ DoRed
    \/ DoGreen
    \/ DoBlue
    \/ DoAlpha
    \/ DoSetRed
    \/ DoSetGreen
    \/ DoSetBlue
    \/ DoSetAlpha
    \/ DoAbsDiff
    \/ DoDiff
    \/ DoMinGrad
    \/ DoMaxGrad
    \/ SetWidth
    \/ SetHeight
    \/ SetRect
    \/ SetSource

Spec == Init /\ [][Next]_vars

\* ============================================================ properties
\* (x,y) addresses a pixel of the buffer: it lies in [0,width) x [0,height)
\* and the pixel's four bytes lie inside the array.
InBuffer(x, y) ==
    /\ x >= 0 /\ x < width[2]
    /\ y >= 0 /\ y < height[2]
    /\ Index(width[2], x, y) + 3 < Len(data[2])

LastIs(ops) == status = "ready" /\ call.op \in ops

\* C1: right after set(x,y,c) at a coordinate of the buffer, get(x,y) is
\* c & 0xFFFFFF (the low 24 bits of c), whatever the buffer held before.
C1_SetGetRoundTrip ==
    (LastIs({"set"}) /\ InBuffer(call.args[1], call.args[2]))
        => get(data[2], width[2], call.args[1], call.args[2]) = Num(call.args[3][3])

\* C1 witness: a set of a colour with bits above the low 24 has acted.
C1_Witness ==
    /\ LastIs({"set"})
    /\ InBuffer(call.args[1], call.args[2])
    /\ call.args[3] = U32(1, 98559)
    /\ get(data[2], width[2], call.args[1], call.args[2]) = Num(98559)

\* C2: right after set32(x,y,c) at a coordinate of the buffer, get32(x,y) is
\* c exactly, for every c in 0..0xFFFFFFFF (c = hi * 2^24 + lo).
C2_Set32Get32RoundTrip ==
    (LastIs({"set32"}) /\ InBuffer(call.args[1], call.args[2]))
        => LET v == get32(data[2], width[2], call.args[1], call.args[2])
           IN  /\ IsNum(v)
               /\ v[2] \div 16777216 = call.args[3][2]
               /\ v[2] % 16777216 = call.args[3][3]

\* C3: a step set(x,y,c) with (x,y) in [0,width) x [0,height) changes no byte
\* other than those at offsets +0, +1, +2 of the addressed pixel: the pixel's
\* alpha byte and every other pixel keep their values.
C3_SetFrame ==
    [][ (nops' = nops + 1 /\ call'.op = "set")
          => LET ind == Index(width[2], call'.args[1], call'.args[2])
             IN  /\ Len(data'[2]) = Len(data[2])
                 /\ \A i \in 0..(Len(data[2]) - 1) :
                      i \notin {ind, ind + 1, ind + 2} => data'[2][i + 1] = data[2][i + 1] ]_vars

\* C3 witness: a set of a colour whose high byte is 200 has acted on a pixel
\* of a ramp buffer, whose alpha byte is still the 13 it was constructed with.
C3_Witness ==
    /\ LastIs({"set"})
    /\ InBuffer(call.args[1], call.args[2])
    /\ call.args[3] = U32(200, 16777215)
    /\ get(data[2], width[2], call.args[1], call.args[2]) = Num(16777215)
    /\ alpha(data[2], width[2], call.args[1], call.args[2]) = Num(13)

ChannelOffset(op) ==
    CASE op \in {"red", "setRed"} -> 0
      [] op \in {"green", "setGreen"} -> 1
      [] op \in {"blue", "setBlue"} -> 2
      [] OTHER -> 3
GetterOf(op) ==
    CASE op = "setRed" -> "red" [] op = "setGreen" -> "green"
      [] op = "setBlue" -> "blue" [] OTHER -> "alpha"
ChannelSetters == {"setRed", "setGreen", "setBlue", "setAlpha"}
ChannelGetters == {"red", "green", "blue", "alpha"}

\* The value the getter named op returns on array d, for every binding of
\* the free identifier r, and whether it leaves d as it is.
GetterReturns(op, d, w, x, y, v) ==
    CASE op = "red" -> \A gr \in GlobalRs : red(d, w, x, y, gr) = <<v, d>>
      [] op = "green" -> green(d, w, x, y) = v
      [] op = "blue" -> blue(d, w, x, y) = v
      [] OTHER -> alpha(d, w, x, y) = v

\* C4: for a coordinate of the buffer and a byte v in 0..255, a channel
\* setter followed by the matching getter returns v, and neither a setter
\* step nor a getter step changes any of the pixel's other three channels.
C4_ChannelRoundTrip ==
    [][ (nops' = nops + 1 /\ call'.op \in ChannelSetters \cup ChannelGetters
         /\ InBuffer(call'.args[1], call'.args[2]))
          => LET ind == Index(width[2], call'.args[1], call'.args[2])
             IN  /\ \A k \in 0..3 :
                      k # ChannelOffset(call'.op) => data'[2][ind + k + 1] = data[2][ind + k + 1]
                 /\ (call'.op \in ChannelSetters /\ call'.args[3] \in 0..255)
                       => GetterReturns(GetterOf(call'.op), data'[2], width[2],
                                        call'.args[1], call'.args[2], Num(call'.args[3])) ]_vars

Byte(v) == v[2]
AbsDelta(a, b) == IF a < b THEN b - a ELSE a - b

\* C5: absDiff(x,y,c) at a coordinate of the buffer returns a number >= 0
\* equal to |R - cR| + |G - cG| + |B - cB| of the pixel's bytes and c's
\* three low bytes (the alpha byte takes no part).
C5_AbsDiffValue ==
    (LastIs({"absDiff"}) /\ InBuffer(call.args[1], call.args[2]))
        => LET ind == Index(width[2], call.args[1], call.args[2])
               c == call.args[3]
               sum == AbsDelta(data[2][ind + 1], Byte2(c)) + AbsDelta(data[2][ind + 2], Byte1(c))
                        + AbsDelta(data[2][ind + 3], Byte0(c))
           IN  sum >= 0 /\ call.ret = Num(sum)

\* C6: after construction and after any sequence of calls and property
\* assignments, data.length = width * height * 4.
C6_LengthInvariant ==
    status = "ready" => Len(data[2]) = width[2] * height[2] * 4

\* The two failures of construction. The code raises both as a plain Error;
\* the message tells them apart.
ConfigurationError == Throw("Error", "Size information required")
UnsupportedSourceError == Throw("Error", "Unknown Image Source")
NoFieldSet ==
    /\ imageData = Undefined /\ rect = Undefined /\ width = Undefined
    /\ height = Undefined /\ data = Undefined

RingPoint(x, y, radius, q) == <<x + radius * Cos4(q), y + radius * Sin4(q)>>
RingKept(w, h, x, y, radius, tests) ==
    {k \in 0..(tests - 1) :
        LET p == RingPoint(x, y, radius, Quarter(tests, k))
        IN  p[1] >= 0 /\ p[1] < w /\ p[2] >= 0 /\ p[2] < h}
RingDivergence(d, w, x, y, color, radius, q) ==
    LET p == RingPoint(x, y, radius, q)
        ref == GradRef(d, w, x, y, color)
        ind == Index(w, p[1], p[2])
    IN  AbsDelta(Byte(ref[1]), d[ind + 1]) + AbsDelta(Byte(ref[2]), d[ind + 2])
          + AbsDelta(Byte(ref[3]), d[ind + 3])
RingChoice(isMin, d, w, h, x, y, color, radius, tests) ==
    LET kept == RingKept(w, h, x, y, radius, tests)
        div(k) == RingDivergence(d, w, x, y, color, radius, Quarter(tests, k))
        best == {k \in kept : \A j \in kept : IF isMin THEN div(k) <= div(j) ELSE div(k) >= div(j)}
        first == CHOOSE k \in best : \A j \in best : k <= j
    IN  IF kept = {} THEN <<"dir", Undefined, Undefined>>
        ELSE <<"dir", Num(Cos4(Quarter(tests, first))), Num(Sin4(Quarter(tests, first)))>>

GradArgsInBuffer ==
    /\ LastIs({"minGrad", "maxGrad"})
    /\ InBuffer(call.args[1], call.args[2])
    /\ Len(data[2]) = width[2] * height[2] * 4

\* C8: minGrad (maxGrad) returns the direction of the first sample, in
\* iteration order from 2*PI downwards, whose divergence is the minimum
\* (maximum) over the ring candidates that lie inside the buffer, the
\* divergence being taken at the candidate's own pixel.
C8_GradDirection ==
    GradArgsInBuffer
      => call.ret = RingChoice(call.op = "minGrad", data[2], width[2], height[2],
                               call.args[1], call.args[2], call.args[3],
                               call.args[4], call.args[5])

\* C9: the result's dx and dy are both unset exactly when every ring
\* candidate (x + radius*cos, y + radius*sin) falls outside the buffer, and
\* both set when at least one candidate is inside.
C9_UnsetIffAllOutside ==
    GradArgsInBuffer
      => LET kept == RingKept(width[2], height[2], call.args[1], call.args[2],
                              call.args[4], call.args[5])
         IN  /\ kept = {} => (call.ret[2] = Undefined /\ call.ret[3] = Undefined)
             /\ kept # {} => (IsNum(call.ret[2]) /\ IsNum(call.ret[3]))

\* C10: a minGrad or maxGrad step leaves every byte of data and the values
\* of width, height, rect and source unchanged.
C10_GradReadOnly ==
    [][ (nops' = nops + 1 /\ call'.op \in {"minGrad", "maxGrad"})
          => (data' = data /\ width' = width /\ height' = height
              /\ rect' = rect /\ source' = source) ]_vars

\* C10 witness: a gradient search has acted and found a direction.
C10_Witness ==
    /\ LastIs({"minGrad", "maxGrad"})
    /\ IsNum(call.ret[2])
    /\ IsNum(call.ret[3])

====
